---- MODULE Spec2Model ----
(***************************************************************************)
(* A model of the Struct value of noms (go/types): the canonical byte      *)
(* encoding of a struct, the operations that rewrite it (NewStruct, Set,   *)
(* Delete), the operations that scan it (MaybeGet, Get, Len, IterFields)   *)
(* and the structural Diff of two structs, together with the value decoder *)
(* whose skip and read paths those operations use to step over a field.    *)
(*                                                                         *)
(* A buffer is a sequence of bytes (0..255).  A decoder is a buffer and an *)
(* offset into it, counted from 0; every decoder step is an operator that  *)
(* takes the buffer and the offset and yields the offset after the step,   *)
(* or Fail when the step panics.  A decoded value is represented by the    *)
(* bytes that encode it, as Struct itself is in the source (readStruct).   *)
(***************************************************************************)
EXTENDS Integers, Sequences, FiniteSets, TLC

----------------------------------------------------------------------------
(* Bounds of the model *)

\* how many of ValidNames the field names are drawn from
NumNames == 3
\* how many of AllValues the field values are drawn from
NumVals == 2
\* counts are uint64 in the source; the model keeps them in CountBits bits
CountBits == 28
\* capacity of the channel the Diff events are sent on
ChanCap == 1

----------------------------------------------------------------------------
(* Kinds (NomsKind) *)

BoolKind == 0
NumberKind == 1
StringKind == 2
BlobKind == 3
ValueKind == 4
ListKind == 5
MapKind == 6
RefKind == 7
SetKind == 8
StructKind == 9
CycleKind == 10
TypeKind == 11
UnionKind == 12

\* the byte length of a hash
HashByteLen == 20

IsPrimitiveKind(k) == k \in {BoolKind, NumberKind, StringKind, BlobKind, ValueKind, TypeKind}

\* the offset a panicking decoder step yields
Fail == 0 - 1

\* the buffer a panicking operation yields, and the nil Value
Panic == << >>
Nil == << >>

----------------------------------------------------------------------------
(* Primitive codec: tag byte, varint count, string *)

InBuf(b, p) == p >= 0 /\ p < Len(b)

\* s[from .. to) with offsets counted from 0
byteSlice(b, from, to) == SubSeq(b, from + 1, to)

RECURSIVE uvarint(_)
uvarint(v) == IF v < 128 THEN <<v>> ELSE <<(v % 128) + 128>> \o uvarint(v \div 128)

writeCount(v) == uvarint(v)

writeString(str) == writeCount(Len(str)) \o str

RECURSIVE countEnd(_, _)
countEnd(b, p) ==
    IF ~InBuf(b, p) THEN Fail
    ELSE IF b[p + 1] < 128 THEN p + 1
    ELSE countEnd(b, p + 1)

RECURSIVE countVal(_, _)
countVal(b, p) ==
    IF b[p + 1] < 128 THEN b[p + 1]
    ELSE (b[p + 1] - 128) + 128 * countVal(b, p + 1)

skipString(b, p) ==
    LET e == countEnd(b, p) IN
    IF e = Fail THEN Fail
    ELSE IF e + countVal(b, p) > Len(b) THEN Fail
    ELSE e + countVal(b, p)

readString(b, p) == byteSlice(b, countEnd(b, p), skipString(b, p))

skipBytes(b, p) == skipString(b, p)

readBool(b, p) == IF InBuf(b, p) THEN p + 1 ELSE Fail

readNumber(b, p) ==
    LET e == countEnd(b, p) IN IF e = Fail THEN Fail ELSE countEnd(b, e)

skipHash(b, p) == IF p + HashByteLen > Len(b) THEN Fail ELSE p + HashByteLen

RECURSIVE StrLess(_, _)
\* Go's < on strings: bytewise lexicographic
StrLess(a, b) ==
    IF b = << >> THEN FALSE
    ELSE IF a = << >> THEN TRUE
    ELSE IF Head(a) # Head(b) THEN Head(a) < Head(b)
    ELSE StrLess(Tail(a), Tail(b))

----------------------------------------------------------------------------
(* Type decoder: the offset after a type descriptor *)

RECURSIVE skipTypeInner(_, _)
RECURSIVE skipTypes(_, _, _)
RECURSIVE skipStrings(_, _, _)
RECURSIVE readBools(_, _, _)

\* n times skipString
skipStrings(b, p, n) ==
    IF p = Fail \/ n = 0 THEN p ELSE skipStrings(b, skipString(b, p), n - 1)

\* n times readBool
readBools(b, p, n) ==
    IF p = Fail \/ n = 0 THEN p ELSE readBools(b, readBool(b, p), n - 1)

\* n times skipTypeInner
skipTypes(b, p, n) ==
    IF p = Fail \/ n = 0 THEN p ELSE skipTypes(b, skipTypeInner(b, p), n - 1)

skipStructType(b, p) ==
    LET p1 == skipString(b, p)
        p2 == IF p1 = Fail THEN Fail ELSE countEnd(b, p1)
    IN  IF p2 = Fail THEN Fail
        ELSE LET count == countVal(b, p1) IN
             readBools(b, skipTypes(b, skipStrings(b, p2, count), count), count)

skipUnionType(b, p) ==
    LET p1 == countEnd(b, p) IN
    IF p1 = Fail THEN Fail ELSE skipTypes(b, p1, countVal(b, p))

skipTypeInner(b, p) ==
    IF ~InBuf(b, p) THEN Fail
    ELSE LET k == b[p + 1] IN
         CASE k = ListKind -> skipTypeInner(b, p + 1)
           [] k = MapKind -> skipTypes(b, p + 1, 2)
           [] k = RefKind -> skipTypeInner(b, p + 1)
           [] k = SetKind -> skipTypeInner(b, p + 1)
           [] k = StructKind -> skipStructType(b, p + 1)
           [] k = UnionKind -> skipUnionType(b, p + 1)
           [] k = CycleKind -> skipString(b, p + 1)
           [] OTHER -> IF IsPrimitiveKind(k) THEN p + 1 ELSE Fail

\* A step of the reading type decoder: the offset it reaches, seenStructs
\* after it (the map is shared by the whole recursion; a struct type is
\* named here by the offset of its kind byte) and the Cycle references
\* resolved so far, each with the offset of its kind byte and the struct type
\* it was resolved to.
TypeRead(p, seen, cycles) == [pos |-> p, seen |-> seen, cycles |-> cycles]

\* seenStructs[name] = t
seenPut(seen, name, t) ==
    [n \in DOMAIN seen \cup {name} |-> IF n = name THEN t ELSE seen[n]]

RECURSIVE readTypeInner(_, _, _, _)
RECURSIVE readTypes(_, _, _)

\* n times readTypeInner, the map threaded through
readTypes(b, r, n) ==
    IF r.pos = Fail \/ n = 0 THEN r
    ELSE readTypes(b, readTypeInner(b, r.pos, r.seen, r.cycles), n - 1)

readStructType(b, p, seen, cycles) ==
    LET p1 == skipString(b, p)
        p2 == IF p1 = Fail THEN Fail ELSE countEnd(b, p1)
    IN  IF p2 = Fail THEN TypeRead(Fail, seen, cycles)
        ELSE LET name == readString(b, p)
                 count == countVal(b, p1)
                 p3 == skipStrings(b, p2, count)
                 r == readTypes(b, TypeRead(p3, seenPut(seen, name, p - 1), cycles), count)
             IN  TypeRead(readBools(b, r.pos, count), r.seen, r.cycles)

readUnionType(b, p, seen, cycles) ==
    LET p1 == countEnd(b, p) IN
    IF p1 = Fail THEN TypeRead(Fail, seen, cycles)
    ELSE readTypes(b, TypeRead(p1, seen, cycles), countVal(b, p))

readTypeInner(b, p, seen, cycles) ==
    IF ~InBuf(b, p) THEN TypeRead(Fail, seen, cycles)
    ELSE LET k == b[p + 1] IN
         CASE k = ListKind -> readTypeInner(b, p + 1, seen, cycles)
           [] k = MapKind -> readTypes(b, TypeRead(p + 1, seen, cycles), 2)
           [] k = RefKind -> readTypeInner(b, p + 1, seen, cycles)
           [] k = SetKind -> readTypeInner(b, p + 1, seen, cycles)
           [] k = StructKind -> readStructType(b, p + 1, seen, cycles)
           [] k = UnionKind -> readUnionType(b, p + 1, seen, cycles)
           [] k = CycleKind ->
                LET e == skipString(b, p + 1) IN
                IF e = Fail THEN TypeRead(Fail, seen, cycles)
                ELSE LET name == readString(b, p + 1) IN
                     IF name = << >> THEN TypeRead(Fail, seen, cycles)
                     ELSE IF name \notin DOMAIN seen THEN TypeRead(Fail, seen, cycles)
                     ELSE TypeRead(e, seen,
                                   cycles \cup {[at |-> p, name |-> name, t |-> seen[name]]})
           [] OTHER -> IF IsPrimitiveKind(k) THEN TypeRead(p + 1, seen, cycles)
                       ELSE TypeRead(Fail, seen, cycles)

\* readType starts from an empty seenStructs
readTypeFrom(b, p) == readTypeInner(b, p, << >>, {})

readType(b, p) == readTypeFrom(b, p).pos

skipType(b, p, validating) ==
    LET p1 == IF validating THEN readType(b, p) ELSE p IN
    IF p1 = Fail THEN Fail ELSE skipTypeInner(b, p1)

----------------------------------------------------------------------------
(* Value decoder: the offset after a value *)

RECURSIVE skipValue(_, _, _)
RECURSIVE skipValues(_, _, _, _)
RECURSIVE skipMetaTuples(_, _, _, _)
RECURSIVE skipFields(_, _, _, _)

\* n times skipValue
skipValues(b, p, n, validating) ==
    IF p = Fail \/ n = 0 THEN p
    ELSE skipValues(b, skipValue(b, p, validating), n - 1, validating)

skipValueSequence(b, p, validating) ==
    LET p1 == countEnd(b, p) IN
    IF p1 = Fail THEN Fail ELSE skipValues(b, p1, countVal(b, p), validating)

skipListLeafSequence(b, p, validating) == skipValueSequence(b, p, validating)

skipSetLeafSequence(b, p, validating) == skipValueSequence(b, p, validating)

skipBlobLeafSequence(b, p) == skipBytes(b, p)

skipMapLeafSequence(b, p, validating) ==
    LET p1 == countEnd(b, p) IN
    IF p1 = Fail THEN Fail ELSE skipValues(b, p1, 2 * countVal(b, p), validating)

\* n times: skipValue (ref), skipValue (v)
skipMetaTuples(b, p, n, validating) ==
    IF p = Fail \/ n = 0 THEN p
    ELSE skipMetaTuples(b, skipValues(b, p, 2, validating), n - 1, validating)

skipMetaSequence(b, p, validating) ==
    LET p1 == countEnd(b, p) IN
    IF p1 = Fail THEN Fail ELSE skipMetaTuples(b, p1, countVal(b, p), validating)

skipRef(b, p, validating) ==
    LET p1 == skipHash(b, p)
        p2 == IF p1 = Fail THEN Fail ELSE skipType(b, p1, validating)
    IN  IF p2 = Fail THEN Fail ELSE countEnd(b, p2)

\* n times: skipString (field name), skipValue
skipFields(b, p, n, validating) ==
    IF p = Fail \/ n = 0 THEN p
    ELSE LET p1 == skipString(b, p) IN
         IF p1 = Fail THEN Fail
         ELSE skipFields(b, skipValue(b, p1, validating), n - 1, validating)

\* the decoder's skipStruct: the kind has been read
skipStructBody(b, p, validating) ==
    LET p1 == skipString(b, p)
        p2 == IF p1 = Fail THEN Fail ELSE countEnd(b, p1)
    IN  IF p2 = Fail THEN Fail ELSE skipFields(b, p2, countVal(b, p1), validating)

\* after the kind of a Blob, List, Map or Set: the level, then meta or leaf
skipSequence(b, p, k, validating) ==
    LET p1 == countEnd(b, p) IN
    IF p1 = Fail THEN Fail
    ELSE IF countVal(b, p) > 0 THEN skipMetaSequence(b, p1, validating)
    ELSE CASE k = BlobKind -> skipBlobLeafSequence(b, p1)
           [] k = ListKind -> skipListLeafSequence(b, p1, validating)
           [] k = MapKind -> skipMapLeafSequence(b, p1, validating)
           [] k = SetKind -> skipSetLeafSequence(b, p1, validating)

skipValue(b, p, validating) ==
    IF ~InBuf(b, p) THEN Fail
    ELSE LET k == b[p + 1] IN
         CASE k \in {BlobKind, ListKind, MapKind, SetKind} ->
                skipSequence(b, p + 1, k, validating)
           [] k = BoolKind -> readBool(b, p + 1)
           [] k = NumberKind -> readNumber(b, p + 1)
           [] k = StringKind -> skipString(b, p + 1)
           [] k = RefKind -> skipRef(b, p + 1, validating)
           [] k = StructKind -> skipStructBody(b, p + 1, validating)
           [] k = TypeKind -> skipType(b, p + 1, validating)
           [] OTHER -> Fail

----------------------------------------------------------------------------
(* Value decoder: the offset after reading a value *)

RECURSIVE readValueEnd(_, _, _)
RECURSIVE readValues(_, _, _, _)
RECURSIVE readMetaTuples(_, _, _, _)
RECURSIVE readFields(_, _, _, _)

\* n times readValue
readValues(b, p, n, validating) ==
    IF p = Fail \/ n = 0 THEN p
    ELSE readValues(b, readValueEnd(b, p, validating), n - 1, validating)

readValueSequence(b, p, validating) ==
    LET p1 == countEnd(b, p) IN
    IF p1 = Fail THEN Fail ELSE readValues(b, p1, countVal(b, p), validating)

\* readLazyValueOffsets steps over the elements with skipValue
readListLeafSequence(b, p, validating) ==
    LET p1 == countEnd(b, p) IN
    IF p1 = Fail THEN Fail ELSE skipValues(b, p1, countVal(b, p), validating)

readSetLeafSequence(b, p, validating) == readValueSequence(b, p, validating)

readBlobLeafSequence(b, p) == skipBytes(b, p)

readMapLeafSequence(b, p, validating) ==
    LET p1 == countEnd(b, p) IN
    IF p1 = Fail THEN Fail ELSE readValues(b, p1, 2 * countVal(b, p), validating)

\* n times: readValue (which must be a Ref), readValue, readCount
readMetaTuples(b, p, n, validating) ==
    IF p = Fail \/ n = 0 THEN p
    ELSE IF ~InBuf(b, p) \/ b[p + 1] # RefKind THEN Fail
    ELSE LET p2 == readValues(b, p, 2, validating)
             p3 == IF p2 = Fail THEN Fail ELSE countEnd(b, p2)
         IN  readMetaTuples(b, p3, n - 1, validating)

readMetaSequence(b, p, validating) ==
    LET p1 == countEnd(b, p) IN
    IF p1 = Fail THEN Fail ELSE readMetaTuples(b, p1, countVal(b, p), validating)

readRef(b, p) ==
    LET p1 == skipHash(b, p)
        p2 == IF p1 = Fail THEN Fail ELSE readType(b, p1)
    IN  IF p2 = Fail THEN Fail ELSE countEnd(b, p2)

\* n times: readString (field name), readValue
readFields(b, p, n, validating) ==
    IF p = Fail \/ n = 0 THEN p
    ELSE LET p1 == skipString(b, p) IN
         IF p1 = Fail THEN Fail
         ELSE readFields(b, readValueEnd(b, p1, validating), n - 1, validating)

\* the decoder's readStruct: the kind has been read
readStructBody(b, p, validating) ==
    LET p1 == skipString(b, p)
        p2 == IF p1 = Fail THEN Fail ELSE countEnd(b, p1)
    IN  IF p2 = Fail THEN Fail ELSE readFields(b, p2, countVal(b, p1), validating)

\* after the kind of a Blob, List, Map or Set: the level, then meta or leaf
readSequence(b, p, k, validating) ==
    LET p1 == countEnd(b, p) IN
    IF p1 = Fail THEN Fail
    ELSE IF countVal(b, p) > 0 THEN readMetaSequence(b, p1, validating)
    ELSE CASE k = BlobKind -> readBlobLeafSequence(b, p1)
           [] k = ListKind -> readListLeafSequence(b, p1, validating)
           [] k = MapKind -> readMapLeafSequence(b, p1, validating)
           [] k = SetKind -> readSetLeafSequence(b, p1, validating)

readValueEnd(b, p, validating) ==
    IF ~InBuf(b, p) THEN Fail
    ELSE LET k == b[p + 1] IN
         CASE k \in {BlobKind, ListKind, MapKind, SetKind} ->
                readSequence(b, p + 1, k, validating)
           [] k = BoolKind -> readBool(b, p + 1)
           [] k = NumberKind -> readNumber(b, p + 1)
           [] k = StringKind -> skipString(b, p + 1)
           [] k = RefKind -> readRef(b, p + 1)
           [] k = StructKind -> readStructBody(b, p + 1, validating)
           [] k = TypeKind -> readType(b, p + 1)
           [] OTHER -> Fail

----------------------------------------------------------------------------
(* The decoder a Struct opens over its own bytes (Struct.decoder) *)

\* it is made by newValueDecoder, which does not validate
skipVal(b, p) == skipValue(b, p, FALSE)

\* the offset after dec.readValue()
readVal(b, p) == readValueEnd(b, p, FALSE)

\* the bytes of the value decoded from p to e; Nil when the read panicked
valueBytes(b, p, e) == IF e = Fail THEN Nil ELSE byteSlice(b, p, e)

\* the Value dec.readValue() returns, as the bytes that encode it; Nil when
\* the read panics
readValue(b, p) == valueBytes(b, p, readVal(b, p))

----------------------------------------------------------------------------
(* Field names *)

IsHeadChar(c) == (c >= 65 /\ c <= 90) \/ (c >= 97 /\ c <= 122)

IsTailChar(c) == IsHeadChar(c) \/ (c >= 48 /\ c <= 57) \/ c = 95

IsValidStructFieldName(name) ==
    /\ name # << >>
    /\ IsHeadChar(name[1])
    /\ \A i \in 2..Len(name) : IsTailChar(name[i])

\* verifyStructName and verifyFieldName pass (they panic otherwise)
StructNameOK(name) == name = << >> \/ IsValidStructFieldName(name)

FieldNameOK(name) == IsValidStructFieldName(name)

----------------------------------------------------------------------------
(* Writing a struct *)

RECURSIVE writeFields(_, _, _)
\* the loop of newStruct from index i on
writeFields(fieldNames, values, i) ==
    IF i > Len(fieldNames) THEN << >>
    ELSE writeString(fieldNames[i]) \o values[i] \o writeFields(fieldNames, values, i + 1)

newStruct(name, fieldNames, values) ==
    <<StructKind>> \o writeString(name) \o writeCount(Len(fieldNames))
        \o writeFields(fieldNames, values, 1)

RECURSIVE InsertSorted(_, _)
InsertSorted(x, seq) ==
    IF seq = << >> THEN <<x>>
    ELSE IF StrLess(Head(seq), x) THEN <<Head(seq)>> \o InsertSorted(x, Tail(seq))
    ELSE <<x>> \o seq

\* a NewStruct that keeps the order of enumeration
SortStrings_Unsorted(seq) == seq

RECURSIVE SortStrings(_)
\* sort.Sort(sort.StringSlice(fieldNames))
SortStrings(seq) ==
    IF seq = << >> THEN << >> ELSE InsertSorted(Head(seq), SortStrings(Tail(seq)))

\* data is the StructData map, order the order in which range enumerates it
NewStruct(name, data, order) ==
    IF ~StructNameOK(name) \/ \E i \in 1..Len(order) : ~FieldNameOK(order[i])
    THEN Panic
    ELSE LET fieldNames == SortStrings(order)
             values == [i \in 1..Len(fieldNames) |-> data[fieldNames[i]]]
         IN  newStruct(name, fieldNames, values)

\* a MakeStructTemplate that does not compare neighbouring names
MakeStructTemplateOK_Unordered(name, fieldNames) ==
    /\ StructNameOK(name)
    /\ \A i \in 1..Len(fieldNames) : FieldNameOK(fieldNames[i])

\* MakeStructTemplate returns (it panics otherwise)
MakeStructTemplateOK(name, fieldNames) ==
    /\ StructNameOK(name)
    /\ \A i \in 1..Len(fieldNames) : FieldNameOK(fieldNames[i])
    /\ \A i \in 2..Len(fieldNames) : StrLess(fieldNames[i - 1], fieldNames[i])

\* StructTemplate.NewStruct
TemplateNewStruct(name, fieldNames, values) ==
    IF Len(fieldNames) # Len(values) THEN Panic
    ELSE newStruct(name, fieldNames, values)

----------------------------------------------------------------------------
(* Scanning a struct *)

\* the decoder's offset after skipKind, skipString, readCount
FieldsStart(s) == countEnd(s, skipString(s, 1))

\* the count decoderSkipToFields reads
FieldCount(s) == countVal(s, skipString(s, 1))

StructLen(s) == FieldCount(s)

StructName(s) == readString(s, 1)

RECURSIVE iterFields(_, _, _)
\* the loop of IterFields with n fields left: the (name, value) pairs it
\* hands to the callback, in order
iterFields(s, p, n) ==
    IF n = 0 THEN << >>
    ELSE LET p1 == skipString(s, p) IN
         << <<readString(s, p), readValue(s, p1)>> >>
             \o iterFields(s, readVal(s, p1), n - 1)

IterFields(s) == iterFields(s, FieldsStart(s), FieldCount(s))

\* the field names IterFields visits, in order, and as a set
NamesOf(fields) == [i \in 1..Len(fields) |-> fields[i][1]]

FieldNameSeq(s) == NamesOf(IterFields(s))

NameSetOf(fields) == {fields[i][1] : i \in 1..Len(fields)}

FieldNames(s) == NameSetOf(IterFields(s))

ValueIn(fields, n) == fields[CHOOSE i \in 1..Len(fields) : fields[i][1] = n][2]

\* the value IterFields pairs with the name n
FieldValue(s, n) == ValueIn(IterFields(s), n)

\* the name -> value mapping IterFields yields
FieldMap(s) == [n \in FieldNames(s) |-> FieldValue(s, n)]

Equals(s, other) == s = other

NotFound == [found |-> FALSE, v |-> Nil]

RECURSIVE maybeGetLoop(_, _, _, _)

\* a MaybeGet whose early exit compares the wrong way round
maybeGetLoop_ExitInverted(s, p, left, n) ==
    IF left = 0 THEN NotFound
    ELSE LET name == readString(s, p)
             p1 == skipString(s, p)
         IN  IF name = n THEN [found |-> TRUE, v |-> readValue(s, p1)]
             ELSE IF StrLess(name, n) THEN NotFound
             ELSE maybeGetLoop(s, skipVal(s, p1), left - 1, n)

\* the loop of MaybeGet with left fields still to scan
maybeGetLoop(s, p, left, n) ==
    IF left = 0 THEN NotFound
    ELSE LET name == readString(s, p)
             p1 == skipString(s, p)
         IN  IF name = n THEN [found |-> TRUE, v |-> readValue(s, p1)]
             ELSE IF StrLess(n, name) THEN NotFound
             ELSE maybeGetLoop(s, skipVal(s, p1), left - 1, n)

MaybeGet(s, n) == maybeGetLoop(s, FieldsStart(s), FieldCount(s), n)

\* Get: the value, or a panic when the field is absent
Get(s, n) == IF MaybeGet(s, n).found THEN MaybeGet(s, n).v ELSE Panic

----------------------------------------------------------------------------
(* Rewriting a struct *)

\* uint64 arithmetic on counts
CountMod(v) == v % (2 ^ CountBits)

RECURSIVE set(_, _, _, _)
RECURSIVE setLoop(_, _, _, _, _, _, _, _)

\* a set that writes the new field after the first greater field, not before
setLoop_InsertAfter(s, p, w, n, v, addedCount, i, newFieldHandled) ==
    IF i >= FieldCount(s) THEN
        IF newFieldHandled THEN w
        ELSE IF addedCount = 1 THEN w \o writeString(n) \o v
        ELSE set(s, n, v, 1)
    ELSE LET name == readString(s, p)
             p1 == skipString(s, p)
             p2 == skipVal(s, p1)
         IN  IF n = name THEN
                 setLoop(s, p2, w \o writeString(name) \o v, n, v, addedCount, i + 1, TRUE)
             ELSE IF ~newFieldHandled /\ StrLess(n, name) THEN
                 IF addedCount = 0 THEN set(s, n, v, 1)
                 ELSE setLoop(s, p2,
                              w \o writeString(name) \o byteSlice(s, p1, p2)
                                \o writeString(n) \o v,
                              n, v, addedCount, i + 1, TRUE)
             ELSE setLoop(s, p2, w \o writeString(name) \o byteSlice(s, p1, p2),
                          n, v, addedCount, i + 1, newFieldHandled)

\* the loop of set: p the decoder's offset, w the bytes written so far,
\* i the loop index
setLoop(s, p, w, n, v, addedCount, i, newFieldHandled) ==
    IF i >= FieldCount(s) THEN
        IF newFieldHandled THEN w
        ELSE IF addedCount = 1 THEN w \o writeString(n) \o v
        ELSE set(s, n, v, 1)
    ELSE LET name == readString(s, p)
             p1 == skipString(s, p)
             p2 == skipVal(s, p1)
         IN  IF n = name THEN
                 setLoop(s, p2, w \o writeString(name) \o v, n, v, addedCount, i + 1, TRUE)
             ELSE IF ~newFieldHandled /\ StrLess(n, name) THEN
                 IF addedCount = 0 THEN set(s, n, v, 1)
                 ELSE setLoop(s, p2,
                              w \o writeString(n) \o v
                                \o writeString(name) \o byteSlice(s, p1, p2),
                              n, v, addedCount, i + 1, TRUE)
             ELSE setLoop(s, p2, w \o writeString(name) \o byteSlice(s, p1, p2),
                          n, v, addedCount, i + 1, newFieldHandled)

\* a set that writes the old count in the header after the restart too
set_CountNotAdjusted(s, n, v, addedCount) ==
    setLoop(s, FieldsStart(s),
            <<StructKind>> \o byteSlice(s, 1, skipString(s, 1))
                \o writeCount(FieldCount(s)),
            n, v, addedCount, 0, FALSE)

set(s, n, v, addedCount) ==
    setLoop(s, FieldsStart(s),
            <<StructKind>> \o byteSlice(s, 1, skipString(s, 1))
                \o writeCount(CountMod(FieldCount(s) + addedCount)),
            n, v, addedCount, 0, FALSE)

Set(s, n, v) == IF ~FieldNameOK(n) THEN Panic ELSE set(s, n, v, 0)

RECURSIVE deleteLoop(_, _, _, _, _, _)

\* a Delete that returns the rewritten buffer when the name was not found
deleteLoop_ReturnsRewrite(s, p, w, n, i, found) ==
    IF i >= FieldCount(s) THEN w
    ELSE LET name == readString(s, p)
             p1 == skipString(s, p)
             p2 == skipVal(s, p1)
         IN  IF n = name THEN deleteLoop(s, p2, w, n, i + 1, TRUE)
             ELSE deleteLoop(s, p2, w \o writeString(name) \o byteSlice(s, p1, p2),
                             n, i + 1, found)

\* the loop of Delete and the return after it
deleteLoop(s, p, w, n, i, found) ==
    IF i >= FieldCount(s) THEN (IF found THEN w ELSE s)
    ELSE LET name == readString(s, p)
             p1 == skipString(s, p)
             p2 == skipVal(s, p1)
         IN  IF n = name THEN deleteLoop(s, p2, w, n, i + 1, TRUE)
             ELSE deleteLoop(s, p2, w \o writeString(name) \o byteSlice(s, p1, p2),
                             n, i + 1, found)

\* a Delete that leaves the count in the header as it was
Delete_CountKept(s, n) ==
    deleteLoop(s, FieldsStart(s),
               <<StructKind>> \o byteSlice(s, 1, skipString(s, 1))
                   \o writeCount(FieldCount(s)),
               n, 0, FALSE)

Delete(s, n) ==
    deleteLoop(s, FieldsStart(s),
               <<StructKind>> \o byteSlice(s, 1, skipString(s, 1))
                   \o writeCount(CountMod(FieldCount(s) - 1)),
               n, 0, FALSE)

----------------------------------------------------------------------------
(* Diff: the locals of a call s.Diff(last, changes, closeChan) and its steps *)

ValueChanged(type, key, old, new) ==
    [ChangeType |-> type, Key |-> key, OldValue |-> old, NewValue |-> new]

\* the zero ValueChanged{}
NoChange == [ChangeType |-> "Added", Key |-> Nil, OldValue |-> Nil, NewValue |-> Nil]

\* pc: "idle" before the call, "merge", "tail1", "tail2" at the head of the
\* three loops, "send" inside sendChange, "done" after the return, "panic"
\* after a panic.  p1, p2: the offsets of dec1, dec2.  change: the event
\* being sent; ret: the loop it is sent from.  stopped: the return was the
\* one after sendChange reported the stop.
DiffIdle ==
    [pc |-> "idle", p1 |-> 0, p2 |-> 0, i1 |-> 0, i2 |-> 0,
     fn1 |-> << >>, fn2 |-> << >>, change |-> NoChange, ret |-> "idle",
     stopped |-> FALSE]

\* the call up to the first loop
diffStart(d, s, last) ==
    IF Equals(s, last) THEN [d EXCEPT !.pc = "done"]
    ELSE [d EXCEPT !.pc = "merge",
                   !.p1 = FieldsStart(s), !.p2 = FieldsStart(last),
                   !.i1 = 0, !.i2 = 0, !.fn1 = << >>, !.fn2 = << >>]

\* the end of one pass through the body of the first loop: the event, when
\* there is one, goes to sendChange
diffGo(change, dd) ==
    IF change # NoChange
    THEN [dd EXCEPT !.pc = "send", !.change = change, !.ret = "merge"]
    ELSE dd

\* the body of the first loop once both names are known: e1, e2 are the
\* offsets after the two values, v1, v2 the values
diffCompare(d, q1, q2, fn1, fn2, e1, e2, v1, v2) ==
    IF fn1 = fn2 THEN
        IF e1 = Fail \/ e2 = Fail THEN [d EXCEPT !.pc = "panic"]
        ELSE diffGo(IF ~Equals(v1, v2)
                    THEN ValueChanged("Modified", fn1, v2, v1)
                    ELSE NoChange,
                    [d EXCEPT !.p1 = e1, !.p2 = e2,
                              !.i1 = d.i1 + 1, !.i2 = d.i2 + 1,
                              !.fn1 = << >>, !.fn2 = << >>])
    ELSE IF StrLess(fn1, fn2) THEN
        IF e1 = Fail THEN [d EXCEPT !.pc = "panic"]
        ELSE diffGo(ValueChanged("Added", fn1, Nil, v1),
                    [d EXCEPT !.p1 = e1, !.p2 = q2, !.i1 = d.i1 + 1,
                              !.fn1 = << >>, !.fn2 = fn2])
    ELSE
        IF e2 = Fail THEN [d EXCEPT !.pc = "panic"]
        ELSE diffGo(ValueChanged("Removed", fn2, v2, Nil),
                    [d EXCEPT !.p1 = q1, !.p2 = e2, !.i2 = d.i2 + 1,
                              !.fn1 = fn1, !.fn2 = << >>])

\* the body of the first loop from the offsets q1, q2 after the two names
\* (a name left from the pass before is not read again)
diffNames(d, s, last, q1, q2, e1, e2) ==
    IF q1 = Fail \/ q2 = Fail THEN [d EXCEPT !.pc = "panic"]
    ELSE diffCompare(d, q1, q2,
                     IF d.fn1 = << >> THEN readString(s, d.p1) ELSE d.fn1,
                     IF d.fn2 = << >> THEN readString(last, d.p2) ELSE d.fn2,
                     e1, e2, valueBytes(s, q1, e1), valueBytes(last, q2, e2))

\* where the value of the field at p starts: after the name, or at p when
\* the name fn is left from the pass before
diffValueStart(b, p, fn) == IF fn = << >> THEN skipString(b, p) ELSE p

\* the offset after the value that starts at q
diffValueEnd(b, q) == IF q = Fail THEN Fail ELSE readVal(b, q)

\* the head of the first loop and one pass through its body, up to the
\* call of sendChange
diffMerge(d, s, last) ==
    IF ~(d.i1 < FieldCount(s) /\ d.i2 < FieldCount(last)) THEN [d EXCEPT !.pc = "tail1"]
    ELSE \* each offset is computed once
         LET q == <<diffValueStart(s, d.p1, d.fn1), diffValueStart(last, d.p2, d.fn2)>>
             e == <<diffValueEnd(s, q[1]), diffValueEnd(last, q[2])>>
         IN  diffNames(d, s, last, q[1], q[2], e[1], e[2])

\* the body of the second and third loop, up to the call of sendChange: b is
\* the struct the loop goes through, p its decoder's offset, fn the name left
\* in fn1 / fn2, q and e the offsets before and after the value
diffTailField(b, p, fn, q, e) ==
    IF q = Fail \/ e = Fail THEN [ok |-> FALSE, e |-> Fail, fn |-> fn, v |-> Nil]
    ELSE [ok |-> TRUE, e |-> e,
          fn |-> IF fn = << >> THEN readString(b, p) ELSE fn,
          v |-> valueBytes(b, q, e)]

diffTailRead(b, p, fn, q) == diffTailField(b, p, fn, q, diffValueEnd(b, q))

\* the head of the second loop and its body, up to the call of sendChange
diffTail1(d, s) ==
    IF ~(d.i1 < FieldCount(s)) THEN [d EXCEPT !.pc = "tail2"]
    ELSE LET f == diffTailRead(s, d.p1, d.fn1, diffValueStart(s, d.p1, d.fn1)) IN
         IF ~f.ok THEN [d EXCEPT !.pc = "panic"]
         ELSE [d EXCEPT !.p1 = f.e, !.fn1 = f.fn,
                        !.pc = "send", !.ret = "tail1",
                        !.change = ValueChanged("Added", f.fn, Nil, f.v)]

\* the head of the third loop and its body, up to the call of sendChange
diffTail2(d, last) ==
    IF ~(d.i2 < FieldCount(last)) THEN [d EXCEPT !.pc = "done"]
    ELSE LET f == diffTailRead(last, d.p2, d.fn2, diffValueStart(last, d.p2, d.fn2)) IN
         IF ~f.ok THEN [d EXCEPT !.pc = "panic"]
         ELSE [d EXCEPT !.p2 = f.e, !.fn2 = f.fn,
                        !.pc = "send", !.ret = "tail2",
                        !.change = ValueChanged("Removed", f.fn, f.v, Nil)]

\* a Diff that goes on with its loop whatever sendChange returns
diffAfterSend_IgnoresStop(d, ok) ==
    [d EXCEPT !.pc = d.ret, !.change = NoChange,
              !.i1 = IF d.ret = "tail1" THEN d.i1 + 1 ELSE d.i1,
              !.i2 = IF d.ret = "tail2" THEN d.i2 + 1 ELSE d.i2]

\* what Diff does with the result of sendChange: on false it returns, on true
\* it goes on with the loop the event was sent from (the second and third
\* loop count the field as they go round)
diffAfterSend(d, ok) ==
    IF ~ok THEN [d EXCEPT !.pc = "done", !.stopped = TRUE]
    ELSE [d EXCEPT !.pc = d.ret, !.change = NoChange,
                   !.i1 = IF d.ret = "tail1" THEN d.i1 + 1 ELSE d.i1,
                   !.i2 = IF d.ret = "tail2" THEN d.i2 + 1 ELSE d.i2]

\* one step of Diff outside sendChange
diffStep(d, s, last) ==
    CASE d.pc = "idle" -> diffStart(d, s, last)
      [] d.pc = "merge" -> diffMerge(d, s, last)
      [] d.pc = "tail1" -> diffTail1(d, s)
      [] d.pc = "tail2" -> diffTail2(d, last)
      [] OTHER -> d

RECURSIVE diffRun(_, _, _, _)
\* the events Diff sends from d on when no stop is ever signalled and every
\* event is taken
diffRun(d, s, last, events) ==
    IF d.pc \in {"done", "panic"} THEN events
    ELSE IF d.pc = "send"
         THEN diffRun(diffAfterSend(d, TRUE), s, last, Append(events, d.change))
         ELSE diffRun(diffStep(d, s, last), s, last, events)

DiffEvents(s, last) == diffRun(DiffIdle, s, last, << >>)

----------------------------------------------------------------------------
(* The names and values the operations are called with *)

\* "a", "ab", "b", "c", "aa"
AllNames == << <<97>>, <<97, 98>>, <<98>>, <<99>>, <<97, 97>> >>

\* "1", which is not a valid name
InvalidName == <<49>>

NamePool == {AllNames[i] : i \in 1..NumNames} \cup {InvalidName}

\* "" and "P"
StructNames == {<< >>, <<80>>}

EncBool(x) == <<BoolKind, IF x THEN 1 ELSE 0>>

EncString(str) == <<StringKind>> \o writeString(str)

\* a Number with non-negative mantissa and exponent
EncNumber(i, e) == <<NumberKind>> \o uvarint(2 * i) \o uvarint(2 * e)

\* struct {a: false}, true, "b", 1, false
AllValues ==
    << newStruct(<< >>, << <<97>> >>, << EncBool(FALSE) >>),
       EncBool(TRUE),
       EncString(<<98>>),
       EncNumber(1, 0),
       EncBool(FALSE) >>

Values == {AllValues[i] : i \in 1..NumVals}

\* the orders in which range can enumerate a map with the keys S
Enumerations(S) ==
    {o \in [1..Cardinality(S) -> S] : \A i, j \in 1..Cardinality(S) : o[i] = o[j] => i = j}

\* the sequences over S of length at most n
SeqsUpTo(S, n) == UNION {[1..k -> S] : k \in 0..n}

EmptyStruct == newStruct(<< >>, << >>, << >>)

----------------------------------------------------------------------------
(* The state: a struct and the last operation on it *)

VARIABLES
    s,          \* the bytes (buff) of the struct the program holds
    op,         \* the last call: its arguments, the struct it was called on, what it returned
    last,       \* the bytes of the struct s is diffed against
    d,          \* the locals of the running s.Diff(last, changes, closeChan)
    cap,        \* the capacity the changes channel was made with
    changes,    \* the events in the changes channel
    closed,     \* closeChan is closed
    received,   \* the events the consumer has taken from the channel
    sent,       \* the events sendChange has delivered to the channel
    stopAt,     \* what Diff had done when closeChan was closed
    input,      \* what the operation under way was called on: a string, or the bytes a reader is over
    pos,        \* the cursor of the nomsReader over input
    res,        \* the last call on the string or the decoder, and what it returned
    ll,         \* the listLazyLeafSequence made from input: offsets and end
    calls,      \* the getItem calls of each caller: the one under way and the ones returned
    mu          \* the lock the callers of getItem share: whether they use it, and who holds it

structVars == <<s, op>>

diffVars == <<last, d, cap, changes, closed, received, sent, stopAt>>

decVars == <<input, pos, res, ll, calls, mu>>

vars == <<s, op, last, d, cap, changes, closed, received, sent, stopAt,
          input, pos, res, ll, calls, mu>>

NoInput == [kind |-> "none", data |-> << >>, elems |-> << >>]

NoResult == [kind |-> "none"]

NoList == [offsets |-> << >>, end |-> 0]

NoLock == [used |-> FALSE, holder |-> 0]

\* no string is being escaped and no reader is open
DecIdle ==
    /\ input = NoInput
    /\ pos = 0
    /\ res = NoResult
    /\ ll = NoList
    /\ calls = << >>
    /\ mu = NoLock

NotStopped == [running |-> FALSE, k |-> 0, more |-> FALSE]

\* no Diff is running
DiffInit ==
    /\ last = EmptyStruct
    /\ d = DiffIdle
    /\ cap = 0
    /\ changes = << >>
    /\ closed = FALSE
    /\ received = << >>
    /\ sent = << >>
    /\ stopAt = NotStopped

\* undoes: the call is a Delete(n) that directly follows a Set(n, v) which added
\* the field n; origin is then the struct that Set was called on
Call(kind, name, n, v, data, before, result, found, panicked) ==
    [kind |-> kind, name |-> name, n |-> n, v |-> v, data |-> data,
     before |-> before, result |-> result, found |-> found, panicked |-> panicked,
     undoes |-> FALSE, origin |-> << >>]

NoCall == Call("init", << >>, << >>, Nil, << >>, << >>, Nil, FALSE, FALSE)

Init ==
    /\ s = EmptyStruct
    /\ op = NoCall
    /\ DiffInit
    /\ DecIdle

\* s = NewStruct(name, data), the map enumerated in some order
DoNewStruct ==
    /\ op.kind = "init"
    /\ \E name \in StructNames, dom \in SUBSET NamePool :
       \E data \in [dom -> Values], order \in Enumerations(dom) :
       \E r \in {NewStruct(name, data, order)} :
          /\ s' = IF r = Panic THEN s ELSE r
          /\ op' = Call("new", name, << >>, Nil, data, s, r, FALSE, r = Panic)

\* s = MakeStructTemplate(name, fieldNames).NewStruct(values)
DoTemplateNewStruct ==
    /\ op.kind = "init"
    /\ \E name \in StructNames, fieldNames \in SeqsUpTo(NamePool, NumNames) :
       \E ok \in {MakeStructTemplateOK(name, fieldNames)} :
       \E values \in IF ok THEN [1..Len(fieldNames) -> Values] \cup {<< >>}
                     ELSE {<< >>} :
       \E r \in {IF ok THEN TemplateNewStruct(name, fieldNames, values) ELSE Panic} :
          /\ s' = IF r = Panic THEN s ELSE r
          /\ op' = Call("template", name, fieldNames, values, << >>, s, r, FALSE, r = Panic)

\* s = s.Set(n, v)
DoSet ==
    \E n \in NamePool, v \in Values :
    \E r \in {Set(s, n, v)} :
        /\ s' = IF r = Panic THEN s ELSE r
        /\ op' = Call("set", << >>, n, v, << >>, s, r, FALSE, r = Panic)

\* s = s.Delete(n)
DoDelete ==
    \E n \in NamePool :
    \E r \in {Delete(s, n)} :
    \E undoes \in {/\ op.kind = "set"
                   /\ ~op.panicked
                   /\ op.n = n
                   /\ n \notin FieldNames(op.before)} :
        /\ s' = r
        /\ op' = [Call("delete", << >>, n, Nil, << >>, s, r, FALSE, FALSE)
                      EXCEPT !.undoes = undoes,
                             !.origin = IF undoes THEN op.before ELSE << >>]

\* v, found = s.MaybeGet(n)
DoMaybeGet ==
    \E n \in NamePool :
    \E r \in {MaybeGet(s, n)} :
        /\ s' = s
        /\ op' = Call("maybeget", << >>, n, Nil, << >>, s, r.v, r.found, FALSE)

\* v = s.Get(n)
DoGet ==
    \E n \in NamePool :
    \E r \in {Get(s, n)} :
        /\ s' = s
        /\ op' = Call("get", << >>, n, Nil, << >>, s, r, r # Panic, r = Panic)

Next ==
    \/ DoNewStruct /\ UNCHANGED <<diffVars, decVars>>
    \/ DoTemplateNewStruct /\ UNCHANGED <<diffVars, decVars>>
    \/ DoSet /\ UNCHANGED <<diffVars, decVars>>
    \/ DoDelete /\ UNCHANGED <<diffVars, decVars>>
    \/ DoMaybeGet /\ UNCHANGED <<diffVars, decVars>>
    \/ DoGet /\ UNCHANGED <<diffVars, decVars>>

Spec == Init /\ [][Next]_vars

----------------------------------------------------------------------------
(* Diff running against a consumer *)

RECURSIVE SetToSeq(_)
\* the elements of S in some order
SetToSeq(S) ==
    IF S = {} THEN << >>
    ELSE LET x == CHOOSE y \in S : TRUE IN <<x>> \o SetToSeq(S \ {x})

\* the names the two structs draw their fields from
DiffNames == {AllNames[i] : i \in 1..NumNames}

\* the value of every field of s, and the other value a field of last can have
DiffValueA == AllValues[2]

DiffValueB == AllValues[1]

\* the struct NewStruct builds for the fields f marks, f[n] being "absent",
\* "A" or "B"
StructOf(name, f) ==
    LET dom == {n \in DOMAIN f : f[n] # "absent"}
        data == [n \in dom |-> IF f[n] = "A" THEN DiffValueA ELSE DiffValueB]
    IN  NewStruct(name, data, SetToSeq(dom))

\* two structs built by NewStruct, a channel made by the caller, and the call
\* s.Diff(last, changes, closeChan) about to start
InitDiff ==
    /\ op = NoCall
    /\ \E f \in [DiffNames -> {"absent", "A"}] : s = StructOf(<< >>, f)
    /\ \E name \in StructNames, g \in [DiffNames -> {"absent", "A", "B"}] :
          last = StructOf(name, g)
    /\ d = DiffIdle
    /\ cap \in 0..ChanCap
    /\ changes = << >>
    /\ closed = FALSE
    /\ received = << >>
    /\ sent = << >>
    /\ stopAt = NotStopped
    /\ DecIdle

DiffRunning == d.pc \notin {"done", "panic"}

\* Diff up to its first loop
DiffStart ==
    /\ d.pc = "idle"
    /\ d' = diffStart(d, s, last)
    /\ UNCHANGED <<structVars, last, cap, changes, closed, received, sent, stopAt>>

\* the first loop: its head and one pass through its body
DiffMerge ==
    /\ d.pc = "merge"
    /\ d' = diffMerge(d, s, last)
    /\ UNCHANGED <<structVars, last, cap, changes, closed, received, sent, stopAt>>

\* the second loop: the fields left in s
DiffTail1 ==
    /\ d.pc = "tail1"
    /\ d' = diffTail1(d, s)
    /\ UNCHANGED <<structVars, last, cap, changes, closed, received, sent, stopAt>>

\* the third loop: the fields left in last
DiffTail2 ==
    /\ d.pc = "tail2"
    /\ d' = diffTail2(d, last)
    /\ UNCHANGED <<structVars, last, cap, changes, closed, received, sent, stopAt>>

\* sendChange puts the event into the channel, which has room
SendChangeBuffered ==
    /\ d.pc = "send"
    /\ ~closed
    /\ Len(changes) < cap
    /\ changes' = Append(changes, d.change)
    /\ sent' = Append(sent, d.change)
    /\ d' = diffAfterSend(d, TRUE)
    /\ UNCHANGED <<structVars, last, cap, closed, received, stopAt>>

\* sendChange hands the event to the consumer waiting on an unbuffered channel
SendChangeRendezvous ==
    /\ d.pc = "send"
    /\ ~closed
    /\ cap = 0
    /\ received' = Append(received, d.change)
    /\ sent' = Append(sent, d.change)
    /\ d' = diffAfterSend(d, TRUE)
    /\ UNCHANGED <<structVars, last, cap, changes, closed, stopAt>>

\* sendChange finds the stop signalled and reports it
SendChangeStopped ==
    /\ d.pc = "send"
    /\ closed
    /\ d' = diffAfterSend(d, FALSE)
    /\ UNCHANGED <<structVars, last, cap, changes, closed, received, sent, stopAt>>

\* the consumer takes an event from the channel
ConsumerReceive ==
    /\ changes # << >>
    /\ received' = Append(received, Head(changes))
    /\ changes' = Tail(changes)
    /\ UNCHANGED <<structVars, last, d, cap, closed, sent, stopAt>>

\* the consumer signals stop: it closes closeChan
ConsumerStop ==
    /\ ~closed
    /\ closed' = TRUE
    /\ stopAt' = [running |-> DiffRunning, k |-> Len(sent),
                  more |-> d.i1 < FieldCount(s) \/ d.i2 < FieldCount(last)]
    /\ UNCHANGED <<structVars, last, d, cap, changes, received, sent>>

NextDiff ==
    \/ DiffStart /\ UNCHANGED decVars
    \/ DiffMerge /\ UNCHANGED decVars
    \/ DiffTail1 /\ UNCHANGED decVars
    \/ DiffTail2 /\ UNCHANGED decVars
    \/ SendChangeBuffered /\ UNCHANGED decVars
    \/ SendChangeRendezvous /\ UNCHANGED decVars
    \/ SendChangeStopped /\ UNCHANGED decVars
    \/ ConsumerReceive /\ UNCHANGED decVars
    \/ ConsumerStop /\ UNCHANGED decVars

SpecDiff == InitDiff /\ [][NextDiff]_vars

----------------------------------------------------------------------------
(* Properties of the struct operations *)

StrictlyAscending(names) ==
    \A i \in 2..Len(names) : StrLess(names[i - 1], names[i])

RECURSIVE EncodedFieldCount(_, _)
\* the number of (name, value) pairs encoded from offset p to the end of b,
\* Fail when the bytes from p on are not a sequence of such pairs
EncodedFieldCount(b, p) ==
    IF p = Len(b) THEN 0
    ELSE IF skipString(b, p) = Fail THEN Fail
    ELSE IF skipVal(b, skipString(b, p)) = Fail THEN Fail
    ELSE LET rest == EncodedFieldCount(b, skipVal(b, skipString(b, p))) IN
         IF rest = Fail THEN Fail ELSE rest + 1

\* the fields of s without the field n, in the order of s
FieldsWithout(st, n) ==
    LET Keep(f) == f[1] # n IN SelectSeq(IterFields(st), Keep)

SetReturned == op.kind = "set" /\ ~op.panicked

C2_NewStructOrderIndependent ==
    (op.kind = "new" /\ ~op.panicked) =>
        /\ \A order \in Enumerations(DOMAIN op.data) :
              NewStruct(op.name, op.data, order) = s
        /\ StrictlyAscending(FieldNameSeq(s))
        /\ FieldMap(s) = op.data

\* a NewStruct of a map with three keys, which has six enumerations
C2_Witness ==
    /\ op.kind = "new"
    /\ ~op.panicked
    /\ Cardinality(DOMAIN op.data) >= 3
    /\ StructLen(s) = Cardinality(DOMAIN op.data)

----------------------------------------------------------------------------
(* Properties of Diff *)

IsPrefix(a, b) == Len(a) <= Len(b) /\ SubSeq(b, 1, Len(a)) = a

KeysOf(events) == [i \in 1..Len(events) |-> events[i].Key]

\* the events the fields of the new struct st and the old struct old call for
ExpectedChanges(st, old) ==
    LET new == FieldMap(st)
        was == FieldMap(old)
    IN  {ValueChanged("Added", n, Nil, new[n]) : n \in DOMAIN new \ DOMAIN was}
        \cup {ValueChanged("Removed", n, was[n], Nil) : n \in DOMAIN was \ DOMAIN new}
        \cup {ValueChanged("Modified", n, was[n], new[n]) :
                 n \in {m \in DOMAIN new \cap DOMAIN was : new[m] # was[m]}}

\* C3: with a consumer that never signals stop, s.Diff(last) emits exactly one
\* event for each field name that differs and none for the others: Added
\* (nil, s's value) for a name only in s, Removed (last's value, nil) for a
\* name only in last, Modified (last's value, s's value) for a name in both
\* with unequal values; no name is reported twice, also when one struct has
\* two or more fields sorting after every field of the other.
C3_DiffEvents ==
    ~closed =>
        /\ d.pc # "panic"
        /\ d.pc = "done" =>
              /\ {sent[i] : i \in 1..Len(sent)} = ExpectedChanges(s, last)
              /\ Len(sent) = Cardinality(ExpectedChanges(s, last))

\* C4: the events Diff sends are in strictly ascending order of their field
\* name, across the merge loop and both tail loops, so no two events carry
\* the same key.
C4_DiffAscending == StrictlyAscending(KeysOf(sent))

\* C5, as claimed: when the consumer signals stop after the k-th event (k at
\* least 1) while Diff is running, Diff delivers no (k+1)-th event; if fields were left to
\* visit at the stop, Diff returns on the stop and does not run through them
\* to its end; and the events delivered are a prefix of the full event
\* sequence.
C5_DiffCancellation ==
    (d.pc = "done" /\ closed /\ stopAt.running /\ stopAt.k >= 1) =>
        /\ Len(sent) = stopAt.k
        /\ stopAt.more => d.stopped
        /\ IsPrefix(sent, DiffEvents(s, last))

\* C5, amended: once the consumer has signalled stop Diff delivers no further
\* event, under every interleaving; Diff notices the stop at its next call of
\* sendChange, where it returns at once without visiting another field (the
\* fields it steps over before that call, which compare equal, are still
\* visited); and the events delivered are always a prefix of the events Diff
\* sends when it is never stopped.
C5_DiffStopsAtNextSend ==
    /\ [][closed => sent' = sent]_vars
    /\ [][(d.pc = "send" /\ closed /\ d' # d) =>
             (d'.pc = "done" /\ d'.stopped /\ d'.i1 = d.i1 /\ d'.i2 = d.i2)]_vars
    /\ [](IsPrefix(sent, DiffEvents(s, last)))
    /\ [](d.stopped => closed /\ d.pc = "done")

\* Diff has returned on a stop signalled after the first event was delivered,
\* with an event it could not send and fields left unvisited
C5_Witness ==
    /\ d.pc = "done"
    /\ d.stopped
    /\ stopAt.running
    /\ stopAt.k >= 1
    /\ Len(sent) = stopAt.k
    /\ Len(sent) < Len(DiffEvents(s, last))
    /\ d.i1 < FieldCount(s) \/ d.i2 < FieldCount(last)

----------------------------------------------------------------------------
(* EscapeStructField.  A Go string is its UTF-8 bytes; ranging over it      *)
(* yields its runes.  The input is kept as its runes.                       *)

\* how long the strings given to EscapeStructField are, in runes
MaxEscapeLen == 3

\* "Q"
escapeChar == 81

\* the UTF-8 bytes of a rune below 0x10000
utf8(r) ==
    IF r < 128 THEN <<r>>
    ELSE IF r < 2048 THEN <<192 + (r \div 64), 128 + (r % 64)>>
    ELSE <<224 + (r \div 4096), 128 + ((r \div 64) % 64), 128 + (r % 64)>>

RECURSIVE stringOf(_)
\* the string with the runes rs
stringOf(rs) == IF rs = << >> THEN << >> ELSE utf8(Head(rs)) \o stringOf(Tail(rs))

\* the upper-case hex digit for n < 16
hexDigit(n) == IF n < 10 THEN 48 + n ELSE 55 + n

RECURSIVE hexUpper(_)
\* fmt.Sprintf("%X", str): two digits for every byte
hexUpper(bytes) ==
    IF bytes = << >> THEN << >>
    ELSE <<hexDigit(Head(bytes) \div 16), hexDigit(Head(bytes) % 16)>> \o hexUpper(Tail(bytes))

\* p.MatchString(s1) for the one-rune string s1: p is headFieldNamePattern
\* when head, tailFieldNamePattern otherwise
patternMatches(r, head) == IF head THEN IsHeadChar(r) ELSE IsTailChar(r)

\* the encode function of EscapeStructField
escapeEncode(r, head) ==
    IF patternMatches(r, head) /\ r # escapeChar THEN utf8(r)
    ELSE LET hs == hexUpper(utf8(r)) IN
         <<escapeChar>> \o (IF Len(hs) = 1 THEN <<48>> ELSE << >>) \o hs

RECURSIVE escapeField(_, _)
\* escapeField(input, encode) from the rune it has reached; head: the
\* pattern is still headFieldNamePattern
escapeField(rs, head) ==
    IF rs = << >> THEN << >>
    ELSE escapeEncode(Head(rs), head) \o escapeField(Tail(rs), FALSE)

\* escapeRegex.MatchString(input)
containsEscapeChar(rs) == \E i \in 1..Len(rs) : rs[i] = escapeChar

EscapeStructField(rs) ==
    IF ~containsEscapeChar(rs) /\ IsValidStructFieldName(stringOf(rs)) THEN stringOf(rs)
    ELSE escapeField(rs, TRUE)

\* the runes the inputs are made of: a Q 1 _ space e-acute
EscapeRunes == {97, 81, 49, 95, 32, 233}

EscapeInputs == SeqsUpTo(EscapeRunes, MaxEscapeLen)

InitEscape ==
    /\ s = EmptyStruct
    /\ op = NoCall
    /\ DiffInit
    /\ input \in {[kind |-> "string", data |-> rs, elems |-> << >>] : rs \in EscapeInputs}
    /\ pos = 0
    /\ res = NoResult
    /\ ll = NoList
    /\ calls = << >>
    /\ mu = NoLock

\* res = EscapeStructField(input)
DoEscapeStructField ==
    /\ input.kind = "string"
    /\ res = NoResult
    /\ res' = [kind |-> "EscapeStructField", out |-> EscapeStructField(input.data)]
    /\ UNCHANGED <<structVars, diffVars, input, pos, ll, calls, mu>>

NextEscape == DoEscapeStructField

SpecEscape == InitEscape /\ [][NextEscape]_vars

\* C11: EscapeStructField maps every input string to a name that
\* IsValidStructFieldName accepts, and returns the input unchanged when the
\* input is a valid name without "Q".
C11_EscapeValid ==
    res.kind = "EscapeStructField" =>
        /\ IsValidStructFieldName(res.out)
        /\ (IsValidStructFieldName(stringOf(input.data)) /\ ~containsEscapeChar(input.data))
               => res.out = stringOf(input.data)

----------------------------------------------------------------------------
(* Encoded values and type descriptors the decoder is run on *)

\* how many tuples the meta sequences have at most
NumTuples == 2

RECURSIVE Flatten(_)
\* the byte sequences of seqs one after the other
Flatten(seqs) == IF seqs = << >> THEN << >> ELSE Head(seqs) \o Flatten(Tail(seqs))

\* type descriptors
TPrimitive(k) == <<k>>

TList(elem) == <<ListKind>> \o elem

TMap(key, value) == <<MapKind>> \o key \o value

TRef(target) == <<RefKind>> \o target

TSet(elem) == <<SetKind>> \o elem

TUnion(ts) == <<UnionKind>> \o writeCount(Len(ts)) \o Flatten(ts)

TCycle(name) == <<CycleKind>> \o writeString(name)

\* a struct type: name, count, the field names, the field types, the
\* optional flags
TStruct(name, fieldNames, types) ==
    <<StructKind>> \o writeString(name) \o writeCount(Len(fieldNames))
        \o Flatten([i \in 1..Len(fieldNames) |-> writeString(fieldNames[i])])
        \o Flatten(types)
        \o [i \in 1..Len(fieldNames) |-> 0]

\* values
EncType(type) == <<TypeKind>> \o type

hashOf(x) == [i \in 1..HashByteLen |-> x]

EncRef(h, type, height) == <<RefKind>> \o h \o type \o writeCount(height)

EncBlobLeaf(bytes) == <<BlobKind>> \o writeCount(0) \o writeString(bytes)

EncListLeaf(elems) ==
    <<ListKind>> \o writeCount(0) \o writeCount(Len(elems)) \o Flatten(elems)

EncSetLeaf(elems) ==
    <<SetKind>> \o writeCount(0) \o writeCount(Len(elems)) \o Flatten(elems)

\* entries: key, value, key, value, ...
EncMapLeaf(entries) ==
    <<MapKind>> \o writeCount(0) \o writeCount(Len(entries) \div 2) \o Flatten(entries)

\* a tuple of a meta sequence: ref to the child, boundary key, leaf count
EncMetaTuple(ref, key, numLeaves) == ref \o key \o writeCount(numLeaves)

EncMetaSequence(k, level, tuples) ==
    <<k>> \o writeCount(level) \o writeCount(Len(tuples)) \o Flatten(tuples)

\* the tuples of a meta sequence of n children whose keys are Numbers, or
\* Refs when refKeys
MetaTuples(n, refKeys) ==
    [i \in 1..n |->
        EncMetaTuple(EncRef(hashOf(i), TPrimitive(ValueKind), 1),
                     IF refKeys THEN EncRef(hashOf(i + 100), TPrimitive(BoolKind), 1)
                     ELSE EncNumber(i, 0),
                     i + 1)]

\* the values with height > 0
MetaValues ==
    {EncMetaSequence(k, 1, MetaTuples(n, refKeys)) :
        k \in {BlobKind, ListKind, MapKind, SetKind}, n \in 0..NumTuples,
        refKeys \in BOOLEAN}

\* a, f, g
FieldA == <<97>>
FieldF == <<102>>
FieldG == <<103>>

\* the struct names A and B
NameA == <<65>>
NameB == <<66>>

\* struct A {f: Cycle<A>}
TSelfCycle == TStruct(NameA, <<FieldF>>, <<TCycle(NameA)>>)

\* struct A {f: struct B {}, g: Cycle<B>}: B has been parsed when the
\* reference is reached
TSiblingCycle ==
    TStruct(NameA, <<FieldF, FieldG>>, <<TStruct(NameB, << >>, << >>), TCycle(NameB)>>)

\* struct A {f: struct A {}, g: Cycle<A>}: the inner A has taken the place of
\* the outer one in the map
TShadowedCycle ==
    TStruct(NameA, <<FieldF, FieldG>>, <<TStruct(NameA, << >>, << >>), TCycle(NameA)>>)

\* struct A {f: struct B {g: Cycle<A>}}
TOuterCycle ==
    TStruct(NameA, <<FieldF>>, << TStruct(NameB, <<FieldG>>, <<TCycle(NameA)>>) >>)

\* struct {f: Cycle<>}
TAnonymousCycle == TStruct(<< >>, <<FieldF>>, <<TCycle(<< >>)>>)

\* the type descriptors without Cycle references
PlainTypes ==
    {TPrimitive(BoolKind), TPrimitive(NumberKind), TPrimitive(StringKind),
     TPrimitive(BlobKind), TPrimitive(ValueKind), TPrimitive(TypeKind),
     TList(TPrimitive(BoolKind)),
     TMap(TPrimitive(StringKind), TPrimitive(NumberKind)),
     TRef(TPrimitive(ValueKind)),
     TSet(TPrimitive(NumberKind)),
     TUnion(<<TPrimitive(BoolKind), TPrimitive(StringKind)>>),
     TUnion(<< >>),
     TStruct(NameA, << >>, << >>),
     TStruct(NameA, <<FieldA, FieldF>>, <<TPrimitive(BoolKind), TList(TPrimitive(StringKind))>>)}

\* the type descriptors readType is given
DecodeTypes ==
    PlainTypes \cup {TSelfCycle, TSiblingCycle, TShadowedCycle, TOuterCycle,
                     TAnonymousCycle, TCycle(NameA), TList(TSelfCycle)}

\* the values with height 0
LeafValues ==
    {EncBool(TRUE), EncBool(FALSE), EncNumber(1, 0), EncNumber(200, 3),
     EncString(<< >>), EncString(<<98, 99>>),
     EncBlobLeaf(<< >>), EncBlobLeaf(<<1, 2, 3>>),
     EncListLeaf(<< >>), EncListLeaf(<<EncBool(TRUE), EncString(<<98>>)>>),
     EncSetLeaf(<<EncNumber(1, 0), EncNumber(2, 0)>>),
     EncMapLeaf(<<EncString(<<98>>), EncBool(TRUE)>>),
     EncRef(hashOf(7), TPrimitive(BoolKind), 1),
     EncRef(hashOf(8), TSelfCycle, 2),
     EmptyStruct,
     newStruct(<<80>>, <<FieldA, FieldF>>, <<EncBool(TRUE), EncListLeaf(<<EncNumber(1, 0)>>)>>),
     EncType(TPrimitive(NumberKind)),
     EncType(TSelfCycle)}

\* values that hold a value with height > 0
NestedValues ==
    {newStruct(<< >>, <<FieldA>>, <<EncMetaSequence(ListKind, 1, MetaTuples(1, FALSE))>>),
     EncSetLeaf(<<EncMetaSequence(BlobKind, 1, MetaTuples(1, FALSE))>>),
     EncMapLeaf(<<EncString(<<98>>), EncMetaSequence(SetKind, 1, MetaTuples(2, TRUE))>>)}

\* the values readValue and skipValue are given: all of them well-formed
DecodeValues == LeafValues \cup MetaValues \cup NestedValues

----------------------------------------------------------------------------
(* A decoder over input, run once from the first byte *)

\* what a call on the decoder returned: end is the cursor after it (Fail
\* when it panicked), cycles the Cycle references readType resolved
Result(kind, validating, end, cycles) ==
    [kind |-> kind, validating |-> validating, end |-> end, cycles |-> cycles]

InitDecode ==
    /\ s = EmptyStruct
    /\ op = NoCall
    /\ DiffInit
    /\ input \in {[kind |-> "value", data |-> v, elems |-> << >>] : v \in DecodeValues}
                 \cup {[kind |-> "type", data |-> ty, elems |-> << >>] : ty \in DecodeTypes}
    /\ pos = 0
    /\ res = NoResult
    /\ ll = NoList
    /\ calls = << >>
    /\ mu = NoLock

\* dec.readValue(), dec made with or without validation
DoReadValue ==
    /\ input.kind = "value"
    /\ res = NoResult
    /\ \E validating \in BOOLEAN :
       \E e \in {readValueEnd(input.data, pos, validating)} :
          /\ pos' = e
          /\ res' = Result("readValue", validating, e, {})
    /\ UNCHANGED <<structVars, diffVars, input, ll, calls, mu>>

\* dec.skipValue()
DoSkipValue ==
    /\ input.kind = "value"
    /\ res = NoResult
    /\ \E validating \in BOOLEAN :
       \E e \in {skipValue(input.data, pos, validating)} :
          /\ pos' = e
          /\ res' = Result("skipValue", validating, e, {})
    /\ UNCHANGED <<structVars, diffVars, input, ll, calls, mu>>

\* dec.readType()
DoReadType ==
    /\ input.kind = "type"
    /\ res = NoResult
    /\ \E validating \in BOOLEAN :
       \E r \in {readTypeFrom(input.data, pos)} :
          /\ pos' = r.pos
          /\ res' = Result("readType", validating, r.pos, r.cycles)
    /\ UNCHANGED <<structVars, diffVars, input, ll, calls, mu>>

\* dec.skipType()
DoSkipType ==
    /\ input.kind = "type"
    /\ res = NoResult
    /\ \E validating \in BOOLEAN :
       \E e \in {skipType(input.data, pos, validating)} :
          /\ pos' = e
          /\ res' = Result("skipType", validating, e, {})
    /\ UNCHANGED <<structVars, diffVars, input, ll, calls, mu>>

NextDecode ==
    \/ DoReadValue
    \/ DoSkipValue
    \/ DoReadType
    \/ DoSkipType

SpecDecode == InitDecode /\ [][NextDecode]_vars

\* C12: on a decoder made by newValueDecoder, skipValue started at the first
\* byte of a well-formed value of any kind leaves the cursor where readValue
\* started there leaves it: at the first byte after the value.
C12_SkipMirrorsRead ==
    (res.kind = "skipValue" /\ ~res.validating) =>
        /\ res.end = readValueEnd(input.data, 0, FALSE)
        /\ res.end = Len(input.data)

\* C13: skipType leaves the cursor after exactly one type descriptor, with
\* and without validation: for every type descriptor readType accepts, the
\* cursor after skipType is the cursor after readType, whether the decoder
\* validates or not.
C13_SkipTypeOneDescriptor ==
    (res.kind = "skipType" /\ readType(input.data, 0) # Fail) =>
        res.end = readType(input.data, 0)

\* the struct type whose kind byte is at t has the reference at offset at
\* inside it
Encloses(b, t, at) == t < at /\ at < skipTypeInner(b, t)

\* C14: when readType returns, every Cycle reference it met was resolved to
\* a struct type of that name which encloses the reference; a reference
\* that has no such struct makes readType fail.
C14_CycleResolvesToEnclosing ==
    (res.kind = "readType" /\ res.end # Fail) =>
        \A c \in res.cycles :
            /\ c.name # << >>
            /\ Encloses(input.data, c.t, c.at)
            /\ readString(input.data, c.t + 1) = c.name

----------------------------------------------------------------------------
(* The lazy list leaf sequence: offsets recorded by skipping, getItem over  *)
(* the reader the sequence shares with its decoder                          *)

\* how many elements the lists have at most
MaxListLen == 2

\* how many getItem calls are made at most, by all callers together
MaxCalls == 2

RECURSIVE lazyOffsets(_, _, _, _)
\* the loop of readLazyValueOffsets: n elements to go from p
lazyOffsets(b, p, n, offsets) ==
    IF p = Fail \/ n = 0 THEN [offsets |-> offsets, end |-> p]
    ELSE lazyOffsets(b, skipValue(b, p, FALSE), n - 1, Append(offsets, p))

\* readLazyValueOffsets with the cursor at the count, and the r.pos() that
\* readListLeafSequence passes on as end
readLazyValueOffsets(b, p) ==
    IF countEnd(b, p) = Fail THEN [offsets |-> << >>, end |-> Fail]
    ELSE lazyOffsets(b, countEnd(b, p), countVal(b, p), << >>)

\* the sequence readValue makes of the list leaf that starts at p: the kind
\* and the level (0) are one byte each
newListLazyLeafSequence(b, p) == readLazyValueOffsets(b, p + 2)

RECURSIVE eagerValues(_, _, _)
\* readValueSequence: the n values decoded one after the other from p
eagerValues(b, p, n) ==
    IF p = Fail \/ n = 0 THEN << >>
    ELSE <<readValue(b, p)>> \o eagerValues(b, readVal(b, p), n - 1)

\* the elements eager decoding of the list leaf at p yields
eagerItems(b, p) ==
    IF countEnd(b, p + 2) = Fail THEN << >>
    ELSE eagerValues(b, countEnd(b, p + 2), countVal(b, p + 2))

\* a getItem that leaves the cursor where readValue left it
getItemRestore_KeepsCursor(saved, cur) == cur

\* the deferred ll.reader.setPos(pos)
getItemRestore(saved, cur) == saved

\* pc: "idle" before the first call, "saved" after pos := reader.pos(),
\* "seeked" after setPos(offsets[idx]), "read" after readValue, "returned"
\* after the deferred setPos.  saved: the local pos.  from: where readValue
\* started.  ret: what it returned.  n: the calls made.
IdleCall ==
    [pc |-> "idle", idx |-> 0, saved |-> 0, from |-> 0, ret |-> Nil,
     panicked |-> FALSE, n |-> 0]

\* the callers of getItem
Callers == {1, 2}

\* true, "b", a List with height 1 and one tuple
LazyElems ==
    {EncBool(TRUE), EncString(<<98>>), EncMetaSequence(ListKind, 1, MetaTuples(1, FALSE))}

\* a flat list, the reader at its first byte, one caller or two, who all
\* take the lock around getItem or all do not
InitLazy ==
    /\ s = EmptyStruct
    /\ op = NoCall
    /\ DiffInit
    /\ input \in {[kind |-> "list", data |-> EncListLeaf(elems), elems |-> elems] :
                     elems \in SeqsUpTo(LazyElems, MaxListLen)}
    /\ pos = 0
    /\ res = NoResult
    /\ ll = NoList
    /\ calls \in {[c \in cs |-> IdleCall] : cs \in {{1}, Callers}}
    /\ mu \in {[used |-> u, holder |-> 0] : u \in BOOLEAN}

\* dec.readValue() on the list: readListLeafSequence makes the lazy sequence
DoReadListLeafSequence ==
    /\ input.kind = "list"
    /\ res = NoResult
    /\ \E r \in {newListLazyLeafSequence(input.data, pos)} :
          /\ ll' = r
          /\ pos' = r.end
          /\ res' = Result("readList", FALSE, r.end, {})
    /\ UNCHANGED <<structVars, diffVars, input, calls, mu>>

\* the calls c has begun
CallsBegun(c) ==
    IF c \notin DOMAIN calls THEN 0
    ELSE calls[c].n + (IF calls[c].pc \in {"saved", "seeked", "read"} THEN 1 ELSE 0)

\* the sequence is there and c may go into getItem
MayCall(c) ==
    /\ res.kind = "readList"
    /\ res.end # Fail
    /\ calls[c].pc \in {"idle", "returned"}
    /\ CallsBegun(1) + CallsBegun(2) < MaxCalls

\* c takes the lock
Acquire(c) ==
    /\ mu.used
    /\ mu.holder = 0
    /\ MayCall(c)
    /\ mu' = [mu EXCEPT !.holder = c]
    /\ UNCHANGED <<structVars, diffVars, input, pos, res, ll, calls>>

\* c calls getItem(idx): pos := ll.reader.pos()
GetItemSavePos(c) ==
    /\ MayCall(c)
    /\ mu.used => mu.holder = c
    /\ \E idx \in 0..(Len(ll.offsets) - 1) :
          calls' = [calls EXCEPT ![c] = [@ EXCEPT !.pc = "saved", !.idx = idx,
                                                   !.saved = pos, !.from = 0,
                                                   !.ret = Nil, !.panicked = FALSE]]
    /\ UNCHANGED <<structVars, diffVars, input, pos, res, ll, mu>>

\* ll.reader.setPos(ll.offsets[idx])
GetItemSetPos(c) ==
    /\ calls[c].pc = "saved"
    /\ pos' = ll.offsets[calls[c].idx + 1]
    /\ calls' = [calls EXCEPT ![c].pc = "seeked"]
    /\ UNCHANGED <<structVars, diffVars, input, res, ll, mu>>

\* dec.readValue() from wherever the cursor is; when it panics the cursor is
\* where the decoder had got to
GetItemReadValue(c) ==
    /\ calls[c].pc = "seeked"
    /\ \E e \in {readVal(input.data, pos)} :
          /\ pos' \in IF e = Fail THEN pos..Len(input.data) ELSE {e}
          /\ calls' = [calls EXCEPT ![c] = [@ EXCEPT !.pc = "read", !.from = pos,
                                                   !.ret = valueBytes(input.data, pos, e),
                                                   !.panicked = (e = Fail)]]
    /\ UNCHANGED <<structVars, diffVars, input, res, ll, mu>>

\* the deferred setPos(pos), and the return
GetItemReturn(c) ==
    /\ calls[c].pc = "read"
    /\ pos' = getItemRestore(calls[c].saved, pos)
    /\ calls' = [calls EXCEPT ![c] = [@ EXCEPT !.pc = "returned", !.n = @ + 1]]
    /\ UNCHANGED <<structVars, diffVars, input, res, ll, mu>>

\* c gives the lock back after getItem has returned
Release(c) ==
    /\ mu.holder = c
    /\ calls[c].pc = "returned"
    /\ mu' = [mu EXCEPT !.holder = 0]
    /\ UNCHANGED <<structVars, diffVars, input, pos, res, ll, calls>>

NextLazy ==
    \/ DoReadListLeafSequence
    \/ \E c \in DOMAIN calls : Acquire(c)
    \/ \E c \in DOMAIN calls : GetItemSavePos(c)
    \/ \E c \in DOMAIN calls : GetItemSetPos(c)
    \/ \E c \in DOMAIN calls : GetItemReadValue(c)
    \/ \E c \in DOMAIN calls : GetItemReturn(c)
    \/ \E c \in DOMAIN calls : Release(c)

SpecLazy == InitLazy /\ [][NextLazy]_vars

RECURSIVE elemStart(_, _)
\* where element i (from 1) of the list with the elements elems starts:
\* after the kind, the level, the count and the elements before it
elemStart(elems, i) ==
    IF i = 1 THEN 2 + Len(writeCount(Len(elems)))
    ELSE elemStart(elems, i - 1) + Len(elems[i - 1])

\* C15: readListLeafSequence records one offset for every element, each the
\* position of the element's first byte, and as end the position after the
\* last element; and with a single caller getItem(i), called in any order
\* any number of times, returns what eager decoding yields for element i and
\* leaves the cursor where it was before the call.
C15_LazyEqualsEager ==
    (res.kind = "readList") =>
        /\ Len(ll.offsets) = Len(input.elems)
        /\ \A i \in 1..Len(input.elems) : ll.offsets[i] = elemStart(input.elems, i)
        /\ ll.end = Len(input.data)
        /\ \A c \in DOMAIN calls :
              (DOMAIN calls = {1} /\ calls[c].pc = "returned") =>
                  /\ ~calls[c].panicked
                  /\ calls[c].ret = eagerItems(input.data, 0)[calls[c].idx + 1]
                  /\ pos = calls[c].saved

====
